---- MODULE Spec2Model ----
(***************************************************************************)
(* PatchTrack: the patch index (analyzer/patchLoader.py), the source       *)
(* matcher (analyzer/sourceLoader.py), the classifier                      *)
(* (analyzer/classifier.py) and the PR aggregation                         *)
(* (analyzer/aggregator.py, analyzer/totals.py).                           *)
(*                                                                         *)
(* Text is a sequence of character codes (ord values).  A 32-bit hash      *)
(* value is a pair <<hi, lo>> of 16-bit halves, hi * 2^16 + lo, so that    *)
(* the arithmetic of common.py is exact modulo 2^32.                       *)
(***************************************************************************)
EXTENDS Integers, Sequences, FiniteSets, TLC

----------------------------------------------------------------------------
(* 32-bit words                                                            *)

Half == 2^16

RECURSIVE BitXor(_, _)
BitXor(a, b) ==
    IF a = 0 THEN b
    ELSE IF b = 0 THEN a
    ELSE (((a % 2) + (b % 2)) % 2) + (2 * BitXor(a \div 2, b \div 2))

RECURSIVE BitAnd(_, _)
BitAnd(a, b) ==
    IF a = 0 \/ b = 0 THEN 0
    ELSE ((a % 2) * (b % 2)) + (2 * BitAnd(a \div 2, b \div 2))

\* w ^ c, c a character code
XorWord(w, c) == <<BitXor(w[1], c \div Half), BitXor(w[2], c % Half)>>

\* (w * k) & 0xFFFFFFFF, for a multiplier k whose low half is below 2^15
MulWord(w, k) ==
    LET klo == k % Half
        khi == k \div Half
        p   == w[2] * klo
    IN  <<((w[1] * klo) + (w[2] * khi) + (p \div Half)) % Half, p % Half>>

\* (v + w) & 0xFFFFFFFF
AddWord(v, w) ==
    LET s == v[2] + w[2]
    IN  <<(v[1] + w[1] + (s \div Half)) % Half, s % Half>>

\* (v - w) & 0xFFFFFFFF
SubWord(v, w) ==
    LET d == v[2] - w[2] + Half
    IN  <<((v[1] - w[1] - (IF d < Half THEN 1 ELSE 0)) + Half) % Half, d % Half>>

\* the word of a character code (ord(c) < 2^21)
CharWord(c) == <<c \div Half, c % Half>>

\* w < n, for a bit-vector length n
WordBelow(w, n) ==
    \/ w[1] < n \div Half
    \/ w[1] = n \div Half /\ w[2] < n % Half

\* w as an index, defined when WordBelow(w, n) for some n < 2^31
WordIndex(w) == (w[1] * Half) + w[2]

\* w & (n - 1), as an index
MaskWord(w, n) ==
    (BitAnd(w[1], (n - 1) \div Half) * Half) + BitAnd(w[2], (n - 1) % Half)

----------------------------------------------------------------------------
(* common.py: the three hash functions                                     *)

FNV_PRIME == 16777619
FNV_OFFSET_BASIS == <<33052, 40389>>   \* 2166136261 = 0x811C9DC5
DJB2_SEED == 5381

RECURSIVE fnv1a_from(_, _)
fnv1a_from(h, s) ==
    IF s = <<>> THEN h
    ELSE fnv1a_from(MulWord(XorWord(h, Head(s)), FNV_PRIME), Tail(s))

fnv1a_hash(s) == fnv1a_from(FNV_OFFSET_BASIS, s)

RECURSIVE djb2_from(_, _)
djb2_from(h, s) ==
    IF s = <<>> THEN h
    ELSE djb2_from(AddWord(AddWord(MulWord(h, 2^5), h), CharWord(Head(s))), Tail(s))

djb2_hash(s) == djb2_from(CharWord(DJB2_SEED), s)

RECURSIVE sdbm_from(_, _)
sdbm_from(h, s) ==
    IF s = <<>> THEN h
    ELSE sdbm_from(
            SubWord(AddWord(AddWord(CharWord(Head(s)), MulWord(h, 2^6)),
                            MulWord(h, 2^16)), h),
            Tail(s))

sdbm_hash(s) == sdbm_from(<<0, 0>>, s)

----------------------------------------------------------------------------
(* Text: str.lower, str.split, str.strip, re.sub(WHITESPACE_REGEX, ...)    *)

\* the whitespace of str.split() and str.strip() (ASCII)
IsSpace(c) == c \in {9, 10, 11, 12, 13, 28, 29, 30, 31, 32}

\* common.WHITESPACE_REGEX = [\t\x0b\x0c\r ]+ : whitespace except newline
IsBlank(c) == c \in {9, 11, 12, 13, 32}

Lower(s) == [i \in 1..Len(s) |-> IF s[i] \in 65..90 THEN s[i] + 32 ELSE s[i]]

\* ''.join(parts)
RECURSIVE Flatten(_)
Flatten(parts) ==
    IF parts = <<>> THEN <<>> ELSE Head(parts) \o Flatten(Tail(parts))

\* sep.join(tokens)
RECURSIVE JoinTokens(_, _)
JoinTokens(tokens, sep) ==
    IF tokens = <<>> THEN <<>>
    ELSE IF Len(tokens) = 1 THEN tokens[1]
    ELSE tokens[1] \o sep \o JoinTokens(Tail(tokens), sep)

\* WHITESPACE_REGEX.sub("", s)
DeleteBlanks(s) == SelectSeq(s, LAMBDA c : ~IsBlank(c))

\* re.sub(WHITESPACE_REGEX, ' ', s): every run of blanks becomes one space
RECURSIVE CollapseBlanks(_)
CollapseBlanks(s) ==
    IF s = <<>> THEN <<>>
    ELSE IF IsBlank(Head(s))
         THEN IF Len(s) > 1 /\ IsBlank(s[2])
              THEN CollapseBlanks(Tail(s))
              ELSE <<32>> \o CollapseBlanks(Tail(s))
         ELSE <<Head(s)>> \o CollapseBlanks(Tail(s))

RECURSIVE LStrip(_)
LStrip(s) == IF s # <<>> /\ IsSpace(Head(s)) THEN LStrip(Tail(s)) ELSE s

RECURSIVE RStrip(_)
RStrip(s) ==
    IF s # <<>> /\ IsSpace(s[Len(s)]) THEN RStrip(SubSeq(s, 1, Len(s) - 1)) ELSE s

\* s.strip()
Strip(s) == RStrip(LStrip(s))

\* s.split(): the maximal runs of non-whitespace characters; cur is the run
\* being read
RECURSIVE SplitFrom(_, _)
SplitFrom(s, cur) ==
    IF s = <<>> THEN (IF cur = <<>> THEN <<>> ELSE <<cur>>)
    ELSE IF IsSpace(Head(s))
         THEN (IF cur = <<>> THEN <<>> ELSE <<cur>>) \o SplitFrom(Tail(s), <<>>)
         ELSE SplitFrom(Tail(s), Append(cur, Head(s)))

Split(s) == SplitFrom(s, <<>>)

\* the elements of a sequence
Range(f) == { f[i] : i \in DOMAIN f }

\* line.startswith(prefix)
StartsWith(line, prefix) ==
    Len(line) >= Len(prefix) /\ SubSeq(line, 1, Len(prefix)) = prefix

----------------------------------------------------------------------------
(* common.FileExt and the supported range of the loaders                   *)

Text == 1
ShellScript == 4
MIN_FILE_EXT_TYPE == 2
MAX_FILE_EXT_TYPE == 40

\* a faulty range check: the upper limit is taken as supported
SupportedUpToMax(file_ext) == MIN_FILE_EXT_TYPE <= file_ext /\ file_ext <= MAX_FILE_EXT_TYPE

\* MIN_FILE_EXT_TYPE <= file_ext < MAX_FILE_EXT_TYPE
Supported(file_ext) == MIN_FILE_EXT_TYPE <= file_ext /\ file_ext < MAX_FILE_EXT_TYPE

(* helpers.remove_comment, for text without quote characters.              *)
(* SHELLSCRIPT_REGEX drops each '#' comment up to the end of its line and  *)
(* keeps the newline; a tag with no branch is passed through.          *)
RECURSIVE StripHashComments(_, _)
StripHashComments(s, in_comment) ==
    IF s = <<>> THEN <<>>
    ELSE IF Head(s) = 10 THEN <<10>> \o StripHashComments(Tail(s), FALSE)
    ELSE IF in_comment \/ Head(s) = 35 THEN StripHashComments(Tail(s), TRUE)
    ELSE <<Head(s)>> \o StripHashComments(Tail(s), FALSE)

remove_comment(source, file_ext) ==
    IF file_ext = ShellScript THEN StripHashComments(source, FALSE) ELSE source

\* PatchLoader._normalize
PatchNormalize(patch, file_ext) ==
    Strip(CollapseBlanks(remove_comment(Lower(patch), file_ext)))

\* SourceLoader._normalize
SourceNormalize(source, file_ext) ==
    Lower(DeleteBlanks(remove_comment(source, file_ext)))

----------------------------------------------------------------------------
(* Defaults of the tunables (constant.py)                                  *)

NGRAM_SIZE == 1
BLOOMFILTER_SIZE == 2097152
MIN_MN_RATIO == 32

----------------------------------------------------------------------------
(* Bounds and inputs                                                       *)

MaxPatchLines == 3     \* lines of a patch file
MaxSrcLines == 2       \* lines of a source file
MaxNgram == 2          \* largest configured common.ngram_size

\* "@@\n", "- old\n", "+ new\n", " a b\n", "+\n"
PatchLinePool ==
    { <<64, 64, 10>>,
      <<45, 32, 111, 108, 100, 10>>,
      <<43, 32, 110, 101, 119, 10>>,
      <<32, 97, 32, 98, 10>>,
      <<43, 10>> }

\* "new\n", "a b\n"
SourceLinePool == { <<110, 101, 119, 10>>, <<97, 32, 98, 10>> }

tokNew == <<110, 101, 119>>     \* "new"
tokOld == <<111, 108, 100>>     \* "old"

SeqsUpTo(S, n) == UNION { [1..k -> S] : k \in 0..n }

\* f.readlines() of a patch file
PatchFiles == SeqsUpTo(PatchLinePool, MaxPatchLines)

\* f.read() of a source file
SourceFiles == { Flatten(ls) : ls \in SeqsUpTo(SourceLinePool, MaxSrcLines) }

PatchTypes == {"patch", "buggy"}
FileExts == {Text, ShellScript, MAX_FILE_EXT_TYPE}

----------------------------------------------------------------------------
(* State                                                                   *)

VARIABLES
    pc,                  \* position: idle, patch, patch_done, record, scan, done
    err,                 \* the exception that ended SourceLoader.traverse, or "none"
    ngram_size,          \* common.ngram_size
    bloomfilter_size,    \* common.bloomfilter_size
    min_mn_ratio,        \* common.min_mn_ratio
    \* PatchLoader
    patch_type, file_ext,
    patch_lines,         \* f.readlines()
    line_no,             \* lines of patch_lines read so far
    diff_cnt,
    diff_lines,          \* diff_patch_lines / diff_buggy_lines
    changed_lines,       \* added_lines / removed_lines
    patch_list,          \* PatchLoader._patch_list
    only_added, only_removed,
    hashes,              \* PatchLoader._hashes: hash -> n-gram text
    \* SourceLoader
    source_text,         \* source_file.read()
    tokens,
    patch_id,
    win_i,               \* i of the scan loop
    num_ngram_processed,
    bit_vector,          \* the set of indices whose bit is 1
    match_dict,          \* patch id -> sequence (by seq) of windows <<hash, bool>>*
    match_srcs,          \* patch id -> the list _check_bloom_match keeps in _match_dict
    results,             \* hash -> Match
    source_hashes,
    nmatch,
    \* classifier / aggregator calls
    fn, arg, ret,
    \* PatchTrack.classify
    prs,                 \* pr_project_pair, in the order of its items
    mpc,                 \* position in classify: idle, pr, text, pair, finished, raised
    pr_i,                \* the PR of the outer loop, from 1
    text_i,              \* the text file of the PR, from 1
    text_ext,            \* file_ext of the text file
    patch_j,             \* the patch file of the inner loop, from 1
    patch_LOC,           \* the local patch_LOC: "unbound" or "bound"
    result_dict,         \* self.result_dict, one entry per PR in the order of prs
    printed,             \* what the last step printed
    raised               \* the exception that left classify, or "none"

cfgVars == <<bloomfilter_size, min_mn_ratio>>
patchVars == <<patch_type, file_ext, patch_lines, line_no, diff_cnt, diff_lines,
               changed_lines, patch_list, only_added, only_removed, hashes>>
srcVars == <<source_text, tokens, patch_id, win_i, num_ngram_processed,
             bit_vector, match_dict, match_srcs, results, source_hashes, nmatch>>
callVars == <<fn, arg, ret>>
mainVars == <<prs, mpc, pr_i, text_i, text_ext, patch_j, patch_LOC, result_dict,
              printed, raised>>
vars == <<pc, err, ngram_size, cfgVars, patchVars, srcVars, callVars, mainVars>>

----------------------------------------------------------------------------
(* PatchLoader                                                             *)

\* dict[key] = value, for a dict kept as a function
DictPut(d, key, value) ==
    [k \in DOMAIN d \cup {key} |-> IF k = key THEN value ELSE d[k]]

\* the n-gram text of PatchLoader._build_hash_list, window i (from 1)
PatchNgram(toks, i, n) == JoinTokens(SubSeq(toks, i, i + n - 1), <<32>>)

Triple(ngram) == <<fnv1a_hash(ngram), djb2_hash(ngram), sdbm_hash(ngram)>>

\* a faulty _build_hash_list: the last window is left out
BuildHashListShort(toks, n) ==
    LET cnt == Len(toks) - n
        ph  == [i \in 1..cnt |-> <<PatchNgram(toks, i, n), Triple(PatchNgram(toks, i, n))>>]
    IN  [hash_list    |-> Flatten([i \in 1..cnt |-> ph[i][2]]),
         patch_hashes |-> ph]

\* PatchLoader._build_hash_list with common.ngram_size = n
BuildHashList(toks, n) ==
    LET cnt == Len(toks) - n + 1
        ph  == [i \in 1..cnt |-> <<PatchNgram(toks, i, n), Triple(PatchNgram(toks, i, n))>>]
    IN  [hash_list    |-> Flatten([i \in 1..cnt |-> ph[i][2]]),
         patch_hashes |-> ph]

RECURSIVE PutHashes(_, _)
PutHashes(h, ph) ==
    IF ph = <<>> THEN h
    ELSE PutHashes(
            DictPut(DictPut(DictPut(h, Head(ph)[2][1], Head(ph)[1]),
                            Head(ph)[2][2], Head(ph)[1]),
                    Head(ph)[2][3], Head(ph)[1]),
            Tail(ph))

\* a faulty size: a short hunk does not shrink it
EffectiveNgramKept(toks, n) == n

\* PatchLoader._add_patch_from_diff: the n-gram size it leaves in
\* common.ngram_size
EffectiveNgram(toks, n) == IF Len(toks) >= n THEN n ELSE Len(toks)

\* PatchLoader._add_patch_from_diff: the PatchInfo appended (orig_lines, the
\* display copy, is not kept)
PatchInfo(cnt, lines, ext, n) ==
    LET toks == Split(PatchNormalize(Flatten(lines), ext))
        eff  == EffectiveNgram(toks, n)
        hl   == BuildHashList(toks, eff)
    IN  [diff_cnt |-> cnt, file_ext |-> ext, norm_lines |-> toks,
         hash_list |-> hl.hash_list, patch_hashes |-> hl.patch_hashes,
         ngram_size |-> eff]

\* the normalized token groups of the changed lines
NormGroups(lines, ext) ==
    [i \in 1..Len(lines) |-> Split(PatchNormalize(lines[i], ext))]

\* a faulty prefix: '+' in both modes
ChangedPrefixAlwaysPlus(type) == <<43>>

\* the prefix of a changed line of the mode: '+' in patch mode, '-' in buggy mode
ChangedPrefix(type) == IF type = "patch" THEN <<43>> ELSE <<45>>

\* a flush of the pending hunk
Flush ==
    LET info == PatchInfo(diff_cnt, diff_lines, file_ext, ngram_size)
    IN  /\ patch_list' = Append(patch_list, info)
        /\ ngram_size' = info.ngram_size
        /\ hashes' = PutHashes(hashes, info.patch_hashes)

NoFlush == UNCHANGED <<patch_list, ngram_size, hashes>>

\* the changed lines go to the only-added / only-removed pool
PoolChanged ==
    /\ only_added' = IF patch_type = "patch"
                     THEN only_added \o NormGroups(changed_lines, file_ext)
                     ELSE only_added
    /\ only_removed' = IF patch_type = "buggy"
                       THEN only_removed \o NormGroups(changed_lines, file_ext)
                       ELSE only_removed

\* PatchLoader.traverse on a patch file: with an unsupported tag the file is
\* not opened
PatchTraverseBody(lines, type, ext) ==
    /\ patch_type' = type
    /\ file_ext' = ext
    /\ patch_lines' = IF Supported(ext) THEN lines ELSE <<>>
    /\ line_no' = 0
    /\ diff_cnt' = 0
    /\ diff_lines' = <<>>
    /\ changed_lines' = <<>>
    /\ patch_list' = <<>>
    /\ only_added' = <<>>
    /\ only_removed' = <<>>
    /\ hashes' = <<>>
    /\ pc' = IF Supported(ext) THEN "patch" ELSE "patch_done"
    /\ UNCHANGED <<err, cfgVars, srcVars, callVars, mainVars>>

\* PatchLoader().traverse(patch_path, patch_type, file_ext), called directly
PatchTraverse ==
    /\ pc = "idle"
    /\ \E lines \in PatchFiles, type \in PatchTypes, ext \in FileExts :
          PatchTraverseBody(lines, type, ext)
    /\ UNCHANGED ngram_size

\* a faulty process_patch: the n-gram size is left as the last call left it
ProcessPatchKeepSize ==
    /\ pc = "idle"
    /\ \E lines \in PatchFiles, type \in PatchTypes, ext \in FileExts :
          PatchTraverseBody(lines, type, ext)
    /\ ngram_size' = ngram_size

\* classifier.process_patch: common.ngram_size = constant.NGRAM_SIZE, then
\* the patch is traversed
ProcessPatch ==
    /\ pc = "idle"
    /\ \E lines \in PatchFiles, type \in PatchTypes, ext \in FileExts :
          PatchTraverseBody(lines, type, ext)
    /\ ngram_size' = NGRAM_SIZE

\* one iteration of the loop of _process_patch / _process_buggy
PatchLine ==
    /\ pc = "patch"
    /\ line_no < Len(patch_lines)
    /\ LET line == patch_lines[line_no + 1] IN
         /\ line_no' = line_no + 1
         /\ IF StartsWith(line, <<64, 64>>)
            THEN /\ IF diff_lines # <<>> THEN Flush ELSE NoFlush
                 /\ diff_lines' = <<>>
                 /\ PoolChanged
                 /\ changed_lines' = <<>>
                 /\ diff_cnt' = diff_cnt + 1
            ELSE IF StartsWith(line, ChangedPrefix(patch_type))
            THEN /\ diff_lines' = Append(diff_lines, Tail(line))
                 /\ changed_lines' = Append(changed_lines, Tail(line))
                 /\ NoFlush
                 /\ UNCHANGED <<only_added, only_removed, diff_cnt>>
            ELSE IF StartsWith(line, <<32>>)
            THEN /\ diff_lines' = Append(diff_lines, Tail(line))
                 /\ NoFlush
                 /\ UNCHANGED <<changed_lines, only_added, only_removed, diff_cnt>>
            ELSE /\ NoFlush
                 /\ UNCHANGED <<diff_lines, changed_lines, only_added,
                                only_removed, diff_cnt>>
    /\ UNCHANGED <<pc, err, cfgVars, patch_type, file_ext, patch_lines, srcVars,
                   callVars, mainVars>>

\* the end of _process_patch / _process_buggy: the final hunk, if any
PatchFinish ==
    /\ pc = "patch"
    /\ line_no = Len(patch_lines)
    /\ IF diff_lines # <<>>
       THEN Flush /\ PoolChanged
       ELSE NoFlush /\ UNCHANGED <<only_added, only_removed>>
    /\ pc' = "patch_done"
    /\ UNCHANGED <<err, cfgVars, patch_type, file_ext, patch_lines, line_no,
                   diff_cnt, diff_lines, changed_lines, srcVars, callVars, mainVars>>

----------------------------------------------------------------------------
(* SourceLoader                                                            *)

\* the n-gram text of SourceLoader._query_bloomfilter, window i (from 0)
SourceNgram(toks, i, n) == JoinTokens(SubSeq(toks, i + 1, i + n), <<>>)

\* [hash1, hash2, hash3] of the scan: each hash masked to the bit vector
MaskedTriple(ngram, size) ==
    <<MaskWord(fnv1a_hash(ngram), size),
      MaskWord(djb2_hash(ngram), size),
      MaskWord(sdbm_hash(ngram), size)>>

\* a faulty scan: the bit of hash3 (sdbm) is left unset
SetBitsNoSdbm(bv, idx) == bv \cup {idx[1], idx[2]}

\* self._bit_vector[hash1] = 1, [hash2] = 1, [hash3] = 1
SetBits(bv, idx) == bv \cup {idx[1], idx[2], idx[3]}

\* num_ngram of the record being scanned
NumNgram == Len(tokens) - ngram_size + 1

\* an insertion-ordered dict, kept as a sequence of <<key, value>>: d[key] = value
RECURSIVE OrderedPut(_, _, _)
OrderedPut(d, key, value) ==
    IF d = <<>> THEN <<<<key, value>>>>
    ELSE IF Head(d)[1] = key THEN <<<<key, value>>>> \o Tail(d)
    ELSE <<Head(d)>> \o OrderedPut(Tail(d), key, value)

\* SourceLoader._check_patch_hashes from entry k of hash_list on: i and seq are
\* its counters, wins the windows of the patch id in _match_dict, res _results.
\* self._bit_vector[h] raises IndexError for h >= len(self._bit_vector).
RECURSIVE CheckFrom(_, _, _, _, _, _, _, _)
CheckFrom(hash_list, k, i, seq, wins, res, bv, size) ==
    IF k > Len(hash_list) THEN [wins |-> wins, results |-> res, err |-> "none"]
    ELSE LET h     == hash_list[k]
             i2    == IF i = 3 THEN 0 ELSE i
             seq2  == IF i = 3 THEN seq + 1 ELSE seq
             wins2 == IF Len(wins) < seq2 + 1 THEN Append(wins, <<>>) ELSE wins
         IN  IF ~WordBelow(h, size)
             THEN [wins |-> wins2, results |-> res, err |-> "IndexError"]
             ELSE LET is_match == WordIndex(h) \in bv
                  IN  CheckFrom(hash_list, k + 1, i2 + 1, seq2,
                                [wins2 EXCEPT ![seq2 + 1] = OrderedPut(@, h, is_match)],
                                DictPut(res, h, is_match), bv, size)

\* SourceLoader._check_patch_hashes(pid)
CheckPatchHashes(hash_list, pid, md, res, bv, size) ==
    CheckFrom(hash_list, 1, 0, 0,
              IF pid \in DOMAIN md THEN md[pid] ELSE <<>>, res, bv, size)

\* SourceLoader().traverse(source_path, patch, file_ext) on a source file, up
\* to the call of _query_bloomfilter
SourceTraverse ==
    /\ pc = "patch_done"
    /\ IF Supported(file_ext)
       THEN \E text \in SourceFiles :
               /\ source_text' = text
               /\ tokens' = Split(SourceNormalize(text, file_ext))
       ELSE source_text' = <<>> /\ tokens' = <<>>
    /\ patch_id' = 0
    /\ win_i' = 0
    /\ num_ngram_processed' = 0
    /\ bit_vector' = {}
    /\ match_dict' = <<>>
    /\ match_srcs' = <<>>
    /\ results' = <<>>
    /\ source_hashes' = <<>>
    /\ nmatch' = 0
    /\ err' = "none"
    /\ pc' = IF Supported(file_ext) THEN "record" ELSE "done"
    /\ UNCHANGED <<ngram_size, cfgVars, patchVars, callVars, mainVars>>

\* a faulty loop head: the bit vector is not cleared for the next record
SrcRecordKeepBits ==
    /\ pc = "record"
    /\ IF patch_id >= Len(patch_list) \/ Len(tokens) < ngram_size
       THEN /\ pc' = "done"
            /\ UNCHANGED <<ngram_size, bit_vector, num_ngram_processed, win_i>>
       ELSE /\ ngram_size' = patch_list[patch_id + 1].ngram_size
            /\ bit_vector' = bit_vector
            /\ num_ngram_processed' = 0
            /\ win_i' = 0
            /\ pc' = "scan"
    /\ UNCHANGED <<err, cfgVars, patchVars, source_text, tokens, patch_id,
                   match_dict, match_srcs, results, source_hashes, nmatch,
                   callVars, mainVars>>

\* _query_bloomfilter: the head of the loop over the patch records
SrcRecord ==
    /\ pc = "record"
    /\ IF patch_id >= Len(patch_list) \/ Len(tokens) < ngram_size
       THEN /\ pc' = "done"
            /\ UNCHANGED <<ngram_size, bit_vector, num_ngram_processed, win_i>>
       ELSE /\ ngram_size' = patch_list[patch_id + 1].ngram_size
            /\ bit_vector' = {}
            /\ num_ngram_processed' = 0
            /\ win_i' = 0
            /\ pc' = "scan"
    /\ UNCHANGED <<err, cfgVars, patchVars, source_text, tokens, patch_id,
                   match_dict, match_srcs, results, source_hashes, nmatch,
                   callVars, mainVars>>

\* SourceLoader._check_bloom_match for a patch entry that has get(): whether
\* every bit of its old_norm_lines is set
BloomMatch(entry, bv) ==
    \A k \in DOMAIN entry.old_norm_lines : WordIndex(entry.old_norm_lines[k]) \in bv

\* _query_bloomfilter: one iteration of the loop over the n-grams.  Above
\* the limit it first calls _check_bloom_match and clears the bit vector and
\* the counter.  self._patch_list[patch_id].get raises AttributeError for a
\* PatchInfo, a namedtuple; for an entry with get() a match puts a list under
\* the patch id and counts in _nmatch (_nsource stays 0).
SrcScan ==
    /\ pc = "scan"
    /\ win_i < NumNgram
    /\ LET entry == patch_list[patch_id + 1]
           reset == num_ngram_processed * min_mn_ratio > bloomfilter_size
           ngram == SourceNgram(tokens, win_i, ngram_size)
           idx   == MaskedTriple(ngram, bloomfilter_size)
       IN  IF reset /\ "old_norm_lines" \notin DOMAIN entry
           THEN /\ err' = "AttributeError"
                /\ pc' = "done"
                /\ UNCHANGED <<bit_vector, num_ngram_processed, win_i,
                               source_hashes, match_srcs, nmatch>>
           ELSE /\ IF reset /\ BloomMatch(entry, bit_vector)
                   THEN /\ match_srcs' =
                              DictPut(match_srcs, patch_id,
                                      Append(IF patch_id \in DOMAIN match_srcs
                                             THEN match_srcs[patch_id] ELSE <<>>, 0))
                        /\ nmatch' = nmatch + 1
                   ELSE UNCHANGED <<match_srcs, nmatch>>
                /\ bit_vector' = SetBits(IF reset THEN {} ELSE bit_vector, idx)
                /\ num_ngram_processed' =
                      (IF reset THEN 0 ELSE num_ngram_processed) + 1
                /\ source_hashes' = Append(source_hashes, <<ngram, idx>>)
                /\ win_i' = win_i + 1
                /\ UNCHANGED <<pc, err>>
    /\ UNCHANGED <<ngram_size, cfgVars, patchVars, source_text, tokens, patch_id,
                   match_dict, results, callVars, mainVars>>

\* _query_bloomfilter: the final check of the record against the bit vector.
\* Where _check_bloom_match left a list under the patch id, seq 0 is found
\* 'in' the list [0, ...], its element 0 is an int, and the assignment
\* self._match_dict[patch_id][seq][h] = is_match raises TypeError.
SrcCheck ==
    /\ pc = "scan"
    /\ win_i >= NumNgram
    /\ LET hash_list == patch_list[patch_id + 1].hash_list
           out == CheckPatchHashes(hash_list, patch_id, match_dict, results,
                                   bit_vector, bloomfilter_size)
       IN  IF patch_id \in DOMAIN match_srcs /\ hash_list # <<>>
           THEN /\ IF WordBelow(hash_list[1], bloomfilter_size)
                   THEN /\ results' = DictPut(results, hash_list[1],
                                              WordIndex(hash_list[1]) \in bit_vector)
                        /\ err' = "TypeError"
                   ELSE /\ err' = "IndexError"
                        /\ UNCHANGED results
                /\ pc' = "done"
                /\ UNCHANGED <<match_dict, patch_id>>
           ELSE /\ match_dict' = IF out.wins = <<>> THEN match_dict
                                 ELSE DictPut(match_dict, patch_id, out.wins)
                /\ results' = out.results
                /\ err' = out.err
                /\ IF out.err = "none"
                   THEN patch_id' = patch_id + 1 /\ pc' = "record"
                   ELSE patch_id' = patch_id /\ pc' = "done"
    /\ UNCHANGED <<ngram_size, cfgVars, patchVars, source_text, tokens, win_i,
                   num_ngram_processed, bit_vector, match_srcs, source_hashes,
                   nmatch, callVars, mainVars>>

----------------------------------------------------------------------------
(* The loaders: specification                                              *)

InitLoaders ==
    /\ pc = "idle"
    /\ err = "none"
    /\ ngram_size \in 1..MaxNgram
    /\ bloomfilter_size = BLOOMFILTER_SIZE
    /\ min_mn_ratio = MIN_MN_RATIO
    /\ patch_type = "patch"
    /\ file_ext = Text
    /\ patch_lines = <<>>
    /\ line_no = 0
    /\ diff_cnt = 0
    /\ diff_lines = <<>>
    /\ changed_lines = <<>>
    /\ patch_list = <<>>
    /\ only_added = <<>>
    /\ only_removed = <<>>
    /\ hashes = <<>>
    /\ source_text = <<>>
    /\ tokens = <<>>
    /\ patch_id = 0
    /\ win_i = 0
    /\ num_ngram_processed = 0
    /\ bit_vector = {}
    /\ match_dict = <<>>
    /\ match_srcs = <<>>
    /\ results = <<>>
    /\ source_hashes = <<>>
    /\ nmatch = 0
    /\ fn = "none"
    /\ arg = <<>>
    /\ ret = <<>>

\* classify has not been called
InitMain ==
    /\ prs = <<>>
    /\ mpc = "idle"
    /\ pr_i = 1
    /\ text_i = 1
    /\ text_ext = Text
    /\ patch_j = 1
    /\ patch_LOC = "unbound"
    /\ result_dict = <<>>
    /\ printed = <<>>
    /\ raised = "none"

Init == InitLoaders /\ InitMain

Next ==
    \/ PatchTraverse
    \/ ProcessPatch
    \/ PatchLine
    \/ PatchFinish
    \/ SourceTraverse
    \/ SrcRecord
    \/ SrcScan
    \/ SrcCheck

Spec == Init /\ [][Next]_vars

\* process_patch returns its two loaders; the next call builds new ones, and
\* of the state of the loaders only the global common.ngram_size is kept
ProcessPatchReturn ==
    /\ pc = "done"
    /\ pc' = "idle"
    /\ err' = "none"
    /\ patch_type' = "patch"
    /\ file_ext' = Text
    /\ patch_lines' = <<>>
    /\ line_no' = 0
    /\ diff_cnt' = 0
    /\ diff_lines' = <<>>
    /\ changed_lines' = <<>>
    /\ patch_list' = <<>>
    /\ only_added' = <<>>
    /\ only_removed' = <<>>
    /\ hashes' = <<>>
    /\ source_text' = <<>>
    /\ tokens' = <<>>
    /\ patch_id' = 0
    /\ win_i' = 0
    /\ num_ngram_processed' = 0
    /\ bit_vector' = {}
    /\ match_dict' = <<>>
    /\ match_srcs' = <<>>
    /\ results' = <<>>
    /\ source_hashes' = <<>>
    /\ nmatch' = 0
    /\ UNCHANGED <<ngram_size, cfgVars, callVars, mainVars>>

\* a sequence of process_patch calls
NextProcess ==
    \/ ProcessPatch
    \/ PatchLine
    \/ PatchFinish
    \/ SourceTraverse
    \/ SrcRecord
    \/ SrcScan
    \/ SrcCheck
    \/ ProcessPatchReturn

SpecProcess == Init /\ [][NextProcess]_vars

----------------------------------------------------------------------------
(* classifier.py                                                           *)
(*                                                                         *)
(* match_items is a sequence of hunks in the order of the patch ids, a     *)
(* hunk a sequence of windows in the order of seq, a window the sequence   *)
(* of its <<hash, bool>> entries in insertion order.                       *)

\* the word of a bit index
IndexWord(n) == <<n \div Half, n % Half>>

\* list(window.keys())
WindowKeys(window) == [i \in 1..Len(window) |-> window[i][1]]

\* the 'count' of a window: its true hash checks
WindowCount(window) == Cardinality({i \in 1..Len(window) : window[i][2]})

\* the second loop of find_hunk_matches from hunk k on: match_bool is set
\* before the loop and is only ever cleared
RECURSIVE HunkClassesFrom(_, _, _, _)
HunkClassesFrom(match_items, k, type, match_bool) ==
    IF k > Len(match_items) THEN <<>>
    ELSE LET mb == match_bool /\ \A j \in 1..Len(match_items[k]) :
                                    ~(WindowCount(match_items[k][j]) < 2)
             class == IF type \in {"MO", "PA"}
                      THEN (IF mb THEN type ELSE "MC")
                      ELSE ""
         IN  <<class>> \o HunkClassesFrom(match_items, k + 1, type, mb)

\* classifier.find_hunk_matches (important_hashes and source_hashes are unused)
find_hunk_matches(match_items, type) ==
    LET classes == HunkClassesFrom(match_items, 1, type, TRUE)
    IN  [k \in 1..Len(match_items) |->
            [sequences |->
                [j \in 1..Len(match_items[k]) |->
                    [count |-> WindowCount(match_items[k][j]),
                     hash_list |-> WindowKeys(match_items[k][j])]],
             class |-> classes[k]]]

\* the characters that 'for each in line' runs over: important_hashes is a
\* list of token lists, so a line is a token and each a character
ImportantChars(important_hashes) ==
    UNION { UNION { Range(important_hashes[l][t]) : t \in DOMAIN important_hashes[l] }
            : l \in DOMAIN important_hashes }

\* the list 'test', as the set of its members: the hash lists of the source
\* n-grams that contain one of the characters
ImportantTest(important_hashes, src_hashes) ==
    { src_hashes[i][2] :
        i \in { i \in DOMAIN src_hashes :
                  Range(src_hashes[i][1]) \cap ImportantChars(important_hashes) # {} } }

\* seq_matches[..]['hash_list'] in test
IsImportant(window, test) ==
    \E hl \in test : [i \in 1..Len(hl) |-> IndexWord(hl[i])] = WindowKeys(window)

\* classifier.find_hunk_matches_w_important_hash
find_hunk_matches_w_important_hash(match_items, type, important_hashes, src_hashes) ==
    LET test == ImportantTest(important_hashes, src_hashes)
    IN  [k \in 1..Len(match_items) |->
            [sequences |->
                [j \in 1..Len(match_items[k]) |->
                    [count |-> WindowCount(match_items[k][j]),
                     hash_list |-> WindowKeys(match_items[k][j]),
                     important |-> IsImportant(match_items[k][j], test)]],
             class |-> IF \E j \in 1..Len(match_items[k]) :
                              IsImportant(match_items[k][j], test)
                       THEN type ELSE "MC"]]

\* classifier.cal_similarity_ratio: (len(unique_matches) /
\* len(unique_source_hashes)) * 100 as the fraction <<numerator, denominator>>,
\* and <<0, 1>> for the 0 of the except branch.  added_lines_hashes is a list
\* of token lists, so 'each' is a character of a token, and it equals an
\* n-gram only when the n-gram is that one character.
cal_similarity_ratio(src_hashes, added_lines_hashes) ==
    LET count_matches ==
            { src_hashes[i][1] :
                i \in { i \in DOMAIN src_hashes :
                          \E each \in ImportantChars(added_lines_hashes) :
                              <<each>> = src_hashes[i][1] } }
        s_hashes == { src_hashes[i][1] : i \in DOMAIN src_hashes }
    IN  IF s_hashes = {} THEN <<0, 1>>
        ELSE <<100 * Cardinality(count_matches), Cardinality(s_hashes)>>

\* a faulty classify_hunk: two empty sides give the empty class
classify_hunk_no_default(class_patch, class_buggy) ==
    IF class_patch = "" /\ class_buggy = "" THEN ""
    ELSE IF class_patch # "" /\ class_buggy = "" THEN class_patch
    ELSE IF class_patch = "" /\ class_buggy # "" THEN class_buggy
    ELSE IF class_buggy = "MC" /\ class_patch = "MC" THEN "PN"
    ELSE IF class_buggy = "PA" /\ class_patch = "MC" THEN "PA"
    ELSE IF class_buggy = "MC" /\ class_patch = "PA" THEN "PA"
    ELSE ""

\* classifier.classify_hunk: of the six ifs the last one that holds decides
classify_hunk(class_patch, class_buggy) ==
    IF class_patch = "" /\ class_buggy = "" THEN "PN"
    ELSE IF class_patch # "" /\ class_buggy = "" THEN class_patch
    ELSE IF class_patch = "" /\ class_buggy # "" THEN class_buggy
    ELSE IF class_buggy = "MC" /\ class_patch = "MC" THEN "PN"
    ELSE IF class_buggy = "PA" /\ class_patch = "MC" THEN "PA"
    ELSE IF class_buggy = "MC" /\ class_patch = "PA" THEN "PA"
    ELSE ""

\* a faulty classify_patch: 'PA' only when no hunk is 'PN'
classify_patch_strict(hunk_classifications) ==
    LET ED_total == Cardinality({i \in DOMAIN hunk_classifications :
                                    hunk_classifications[i] = "PA"})
        NA_total == Cardinality({i \in DOMAIN hunk_classifications :
                                    hunk_classifications[i] = "PN"})
    IN  IF ED_total = 0 \/ NA_total > 0 THEN "PN" ELSE "PA"

\* classifier.classify_patch
classify_patch(hunk_classifications) ==
    LET ED_total == Cardinality({i \in DOMAIN hunk_classifications :
                                    hunk_classifications[i] = "PA"})
    IN  IF ED_total = 0 THEN "PN" ELSE "PA"

----------------------------------------------------------------------------
(* aggregator.py and totals.py                                             *)
(*                                                                         *)
(* The result items of a PR, over all its files, are a sequence; an item   *)
(* is <<patchClass>>, or <<>> when it has no 'patchClass' key.             *)

\* the keys of _initialize_classification_counts, in the order of the dict
CountsOrder == <<"PA", "NE", "CC", "PN", "ERROR">>

\* a faulty order of the candidates: NE ahead of CC
RemainingOrderNEFirst == <<"NE", "CC", "ERROR">>

\* the keys of 'remaining' (aggregator) and of 'stats' (totals), in the order
\* of the dict
RemainingOrder == <<"CC", "NE", "ERROR">>

\* max(d.items(), key=operator.itemgetter(1))[0] over the keys in order: the
\* first key whose count is maximal
FirstMax(order, counts) ==
    order[CHOOSE i \in DOMAIN order :
            /\ \A j \in DOMAIN order : counts[order[j]] <= counts[order[i]]
            /\ \A j \in 1..(i - 1) : counts[order[j]] < counts[order[i]]]

\* a faulty priority: PN is looked at before PA
determine_ultimate_class_pn_first(counts) ==
    IF counts["PN"] > 0 THEN "PN"
    ELSE IF counts["PA"] > 0 THEN "PA"
    ELSE FirstMax(RemainingOrder, counts)

\* aggregator._determine_ultimate_class
_determine_ultimate_class(counts) ==
    IF counts["PA"] > 0 THEN "PA"
    ELSE IF counts["PN"] > 0 THEN "PN"
    ELSE FirstMax(RemainingOrder, counts)

\* the counter that aggregator.final_class increments for an item, "" for
\* none: a label that no branch of the if/elif chain names is not counted
AggregatorBucket(item) ==
    IF item = <<>> THEN "ERROR"
    ELSE IF item[1] \in {"OTHER EXT", "CC"} THEN "CC"
    ELSE IF item[1] \in {"NE", "PA", "PN", "ERROR"} THEN item[1]
    ELSE ""

\* the counter that totals.final_class increments for an item, "" for none
TotalsBucket(item) ==
    IF item = <<>> THEN "ERROR"
    ELSE IF item[1] = "OTHER EXT" THEN "CC"
    ELSE IF item[1] = "NOT EXISTING" THEN "NE"
    ELSE IF item[1] \in {"PA", "PN", "ERROR"} THEN item[1]
    ELSE ""

\* the counts after the loop over the items, buckets[i] the counter that
\* item i increments
Tally(buckets) ==
    [c \in Range(CountsOrder) |->
        Cardinality({i \in DOMAIN buckets : buckets[i] = c})]

\* aggregator.final_class, for one PR: its 'totals' and its 'class'
aggregator_final_class(items) ==
    LET counts == Tally([i \in DOMAIN items |-> AggregatorBucket(items[i])])
    IN  [totals |-> counts, class |-> _determine_ultimate_class(counts)]

\* totals.final_class, for one PR
totals_final_class(items) ==
    LET counts == Tally([i \in DOMAIN items |-> TotalsBucket(items[i])])
    IN  [totals |-> counts,
         class |-> IF counts["PA"] = 0
                   THEN (IF counts["PN"] > 0 THEN "PN"
                         ELSE FirstMax(RemainingOrder, counts))
                   ELSE "PA"]

----------------------------------------------------------------------------
(* Calls of the classifier and of the aggregation: specification SpecCalls  *)

MaxWindows == 3        \* windows of a match_items, over all its hunks
MaxHunkClasses == 3    \* hunk classes given to classify_patch
MaxItems == 3          \* result items of a PR
MaxCount == 2          \* largest count given to _determine_ultimate_class

\* the keys of a window of "new" as the source scan would index them, and as
\* PatchLoader stores them
KeysMasked ==
    [i \in 1..3 |-> IndexWord(MaskedTriple(tokNew, BLOOMFILTER_SIZE)[i])]
KeysRaw == Triple(tokNew)

\* {hash: bool, ...} with the given keys and verdicts
Window(keys, verdicts) == [i \in 1..3 |-> <<keys[i], verdicts[i]>>]

WindowPool ==
    { Window(KeysMasked, <<TRUE, TRUE, TRUE>>),
      Window(KeysMasked, <<TRUE, TRUE, FALSE>>),
      Window(KeysMasked, <<TRUE, FALSE, FALSE>>),
      Window(KeysRaw, <<TRUE, TRUE, TRUE>>),
      Window(KeysRaw, <<FALSE, FALSE, FALSE>>) }

\* the windows ws cut into hunks: a hunk ends after window i when cuts[i], and
\* after the last window
RECURSIVE GroupHunks(_, _, _, _)
GroupHunks(ws, cuts, i, cur) ==
    IF i > Len(ws) THEN <<>>
    ELSE IF i = Len(ws) \/ cuts[i]
         THEN <<Append(cur, ws[i])>> \o GroupHunks(ws, cuts, i + 1, <<>>)
         ELSE GroupHunks(ws, cuts, i + 1, Append(cur, ws[i]))

\* source.match_items(): every hunk has at least one window
MatchItemsSet ==
    UNION { { GroupHunks(ws, cuts, 1, <<>>) : cuts \in [1..(Len(ws) - 1) -> BOOLEAN] }
            : ws \in SeqsUpTo(WindowPool, MaxWindows) }

RequestedTypes == {"PA", "MO"}

\* patch.added(): the token lists of the added lines
ImportantPool == { <<>>, <<<<tokNew>>>>, <<<<tokOld>>>> }

\* source.source_hashes(): the [ngram, [hash1, hash2, hash3]] of the scan
SourceHashesPool == { <<>>, <<<<tokNew, MaskedTriple(tokNew, BLOOMFILTER_SIZE)>>>> }

HunkClasses == {"", "PA", "MO", "MC", "PN"}
PatchClasses == {"PA", "PN", "MC", "XX"}

\* item['patchClass'] of the result items; <<>> is an item without the key
ItemPool ==
    { <<>>, <<"PA">>, <<"PN">>, <<"CC">>, <<"NE">>, <<"ERROR">>,
      <<"OTHER EXT">>, <<"NOT EXISTING">> }

loaderVars == <<pc, err, ngram_size, cfgVars, patchVars, srcVars>>

\* the call of f on a returns r
Call(f, a, r) ==
    /\ fn' = f
    /\ arg' = a
    /\ ret' = r
    /\ UNCHANGED <<loaderVars, mainVars>>

FindHunkMatches ==
    /\ fn = "none"
    /\ \E mi \in MatchItemsSet, t \in RequestedTypes :
           Call("find_hunk_matches", <<mi, t>>, find_hunk_matches(mi, t))

FindHunkMatchesWImportantHash ==
    /\ fn = "none"
    /\ \E mi \in MatchItemsSet, t \in RequestedTypes,
          ih \in ImportantPool, sh \in SourceHashesPool :
           Call("find_hunk_matches_w_important_hash", <<mi, t, ih, sh>>,
                find_hunk_matches_w_important_hash(mi, t, ih, sh))

CalSimilarityRatio ==
    /\ fn = "none"
    /\ \E sh \in SourceHashesPool, ih \in ImportantPool :
           Call("cal_similarity_ratio", <<sh, ih>>, cal_similarity_ratio(sh, ih))

ClassifyHunk ==
    /\ fn = "none"
    /\ \E a \in HunkClasses, b \in HunkClasses :
           Call("classify_hunk", <<a, b>>, classify_hunk(a, b))

ClassifyPatch ==
    /\ fn = "none"
    /\ \E hc \in SeqsUpTo(PatchClasses, MaxHunkClasses) :
           Call("classify_patch", hc, classify_patch(hc))

DetermineUltimateClass ==
    /\ fn = "none"
    /\ \E counts \in [Range(CountsOrder) -> 0..MaxCount] :
           Call("_determine_ultimate_class", counts, _determine_ultimate_class(counts))

AggregatorFinalClass ==
    /\ fn = "none"
    /\ \E items \in SeqsUpTo(ItemPool, MaxItems) :
           Call("aggregator.final_class", items, aggregator_final_class(items))

TotalsFinalClass ==
    /\ fn = "none"
    /\ \E items \in SeqsUpTo(ItemPool, MaxItems) :
           Call("totals.final_class", items, totals_final_class(items))

InitCalls == Init /\ ngram_size = NGRAM_SIZE

NextCalls ==
    \/ FindHunkMatches
    \/ FindHunkMatchesWImportantHash
    \/ CalSimilarityRatio
    \/ ClassifyHunk
    \/ ClassifyPatch
    \/ DetermineUltimateClass
    \/ AggregatorFinalClass
    \/ TotalsFinalClass

SpecCalls == InitCalls /\ [][NextCalls]_vars

----------------------------------------------------------------------------
(* Properties of the loaders (specification Spec)                          *)

lineOld == <<45, 32, 111, 108, 100, 10>>      \* "- old\n"
lineNew == <<43, 32, 110, 101, 119, 10>>      \* "+ new\n"

\* the lines of a patch file that do not start with '@@'
NonHunkLines(lines) == SelectSeq(lines, LAMBDA l : ~StartsWith(l, <<64, 64>>))

\* the scenario of the round trip: a hunk of "- old" and "+ new" processed in
\* patch mode at n-gram size 1, and a scanned source with "new" and without
\* "old"
RoundTripScenario ==
    /\ pc = "done"
    /\ patch_type = "patch"
    /\ NonHunkLines(patch_lines) = <<lineOld, lineNew>>
    /\ Len(patch_list) = 1
    /\ patch_list[1].ngram_size = 1
    /\ tokNew \in Range(tokens)
    /\ tokOld \notin Range(tokens)

\* C1: the round trip at n-gram size 1.  After the hunk "- old" / "+ new" is
\* processed in patch mode and a source with the token "new" and without
\* "old" is scanned, match_items() has for the record a window whose three
\* keys are the hashes of "new", all true, and no window and no result for a
\* hash of "old".
C1_RoundTrip ==
    RoundTripScenario =>
        /\ 0 \in DOMAIN match_dict
        /\ \E w \in DOMAIN match_dict[0] :
              match_dict[0][w] = <<<<fnv1a_hash(tokNew), TRUE>>,
                                   <<djb2_hash(tokNew), TRUE>>,
                                   <<sdbm_hash(tokNew), TRUE>>>>
        /\ \A w \in DOMAIN match_dict[0] : \A e \in Range(match_dict[0][w]) :
              e[1] \notin Range(Triple(tokOld))
        /\ \A h \in Range(Triple(tokOld)) : h \notin DOMAIN results

\* C2: no false negatives of the scan.  When the fingerprints of a patch
\* record are about to be tested, every n-gram window of the source tokens at
\* the record's n-gram size, all scanned since the bit vector was last
\* cleared, has its three bits set: the bits at fnv1a, djb2 and sdbm of the
\* window string, each masked with bloomfilter_size - 1.
C2_NoFalseNegatives ==
    (pc = "scan" /\ win_i >= NumNgram) =>
        \A i \in 0..(NumNgram - 1) :
            LET ngram == SourceNgram(tokens, i, ngram_size) IN
              /\ MaskWord(fnv1a_hash(ngram), bloomfilter_size) \in bit_vector
              /\ MaskWord(djb2_hash(ngram), bloomfilter_size) \in bit_vector
              /\ MaskWord(sdbm_hash(ngram), bloomfilter_size) \in bit_vector

\* a record is about to be tested after a scan of two windows into the
\* cleared bit vector
C2_Witness ==
    /\ pc = "scan"
    /\ win_i >= NumNgram
    /\ NumNgram >= 2
    /\ num_ngram_processed = NumNgram
    /\ Len(source_hashes) = NumNgram

\* C10: records come only from hunks opened by '@@'.  A patch file without a
\* '@@' line yields no record, and no record is built from the lines that
\* precede the first '@@' line (a record whose hunk counter is still 0).
C10_RecordsOnlyFromHunks ==
    /\ (\A l \in Range(patch_lines) : ~StartsWith(l, <<64, 64>>)) => patch_list = <<>>
    /\ \A r \in Range(patch_list) : r.diff_cnt >= 1

----------------------------------------------------------------------------
(* Properties of the classifier and of the aggregation (SpecCalls)         *)

\* C3: find_hunk_matches classifies each hunk independently of the others.
\* The class of a hunk is the requested type exactly when every window of
\* that hunk has at least 2 true hash checks, and 'MC' otherwise, whatever
\* the other hunks are.
C3_HunksIndependent ==
    fn = "find_hunk_matches" =>
        \A k \in DOMAIN arg[1] :
            ret[k].class =
                IF \A j \in DOMAIN arg[1][k] : WindowCount(arg[1][k][j]) >= 2
                THEN arg[2] ELSE "MC"

\* C4: find_hunk_matches_w_important_hash applies the every-window rule,
\* overridden only by the important-hash short-circuit.  The class of a hunk
\* is the requested type if some window of it is flagged important and has
\* at least 2 true hash checks, or if every window of it has at least 2 true
\* hash checks, and 'MC' otherwise.
C4_ImportantOverridesOnly ==
    fn = "find_hunk_matches_w_important_hash" =>
        \A k \in DOMAIN arg[1] :
            ret[k].class =
                IF \/ \E j \in DOMAIN arg[1][k] :
                         /\ ret[k].sequences[j].important
                         /\ WindowCount(arg[1][k][j]) >= 2
                   \/ \A j \in DOMAIN arg[1][k] : WindowCount(arg[1][k][j]) >= 2
                THEN arg[2] ELSE "MC"

\* C5: classify_hunk combines the two side classes.  One side 'MC' and the
\* other 'PA' gives 'PA' in either order, two 'MC' give 'PN', exactly one
\* empty side gives the class of the other side, two empty sides give 'PN'.
C5_ClassifyHunk ==
    fn = "classify_hunk" =>
        /\ (arg[1] = "MC" /\ arg[2] = "PA") => ret = "PA"
        /\ (arg[1] = "PA" /\ arg[2] = "MC") => ret = "PA"
        /\ (arg[1] = "MC" /\ arg[2] = "MC") => ret = "PN"
        /\ (arg[1] = "" /\ arg[2] # "") => ret = arg[2]
        /\ (arg[1] # "" /\ arg[2] = "") => ret = arg[1]
        /\ (arg[1] = "" /\ arg[2] = "") => ret = "PN"

\* classify_hunk has returned for two empty sides
C5_Witness ==
    fn = "classify_hunk" /\ arg = <<"", "">> /\ ret = "PN"

\* C6: classify_patch returns 'PA' exactly when some hunk class is 'PA', and
\* 'PN' in every other case; it returns nothing but 'PA' or 'PN'.
C6_ClassifyPatch ==
    fn = "classify_patch" =>
        /\ ret = "PA" <=> "PA" \in Range(arg)
        /\ ret \in {"PA", "PN"}
        /\ "PA" \notin Range(arg) => ret = "PN"

\* classify_patch has returned 'PA' for a list that also holds 'PN' and an
\* unrecognised label
C6_Witness ==
    /\ fn = "classify_patch"
    /\ {"PA", "PN", "XX"} \subseteq Range(arg)
    /\ ret = "PA"

\* C7: the priority of the PR aggregation.  The label is 'PA' whenever the PA
\* count is positive, 'PN' whenever the PA count is 0 and the PN count is
\* positive, and otherwise one of CC, NE, ERROR whose count is maximal among
\* the three; for _determine_ultimate_class and for both final_class.
C7_Priority ==
    LET counts == IF fn = "_determine_ultimate_class" THEN arg ELSE ret.totals
        label  == IF fn = "_determine_ultimate_class" THEN ret ELSE ret.class
    IN  fn \in {"_determine_ultimate_class", "aggregator.final_class",
                "totals.final_class"} =>
            /\ counts["PA"] > 0 => label = "PA"
            /\ (counts["PA"] = 0 /\ counts["PN"] > 0) => label = "PN"
            /\ (counts["PA"] = 0 /\ counts["PN"] = 0) =>
                  /\ label \in {"CC", "NE", "ERROR"}
                  /\ \A c \in {"CC", "NE", "ERROR"} : counts[c] <= counts[label]

\* _determine_ultimate_class has returned 'PA' for counts where PN, CC, NE
\* and ERROR all exceed PA
C7_Witness ==
    /\ fn = "_determine_ultimate_class"
    /\ arg["PA"] = 1
    /\ \A c \in {"PN", "CC", "NE", "ERROR"} : arg[c] > 1
    /\ ret = "PA"

\* C8: aggregator.final_class counts every result item in exactly one of the
\* five totals.  'OTHER EXT' and 'CC' count as CC, an item without patchClass
\* or with a label outside the recognised set counts as ERROR, and the five
\* totals sum to the number of result items.
C8_TotalsCoverItems ==
    fn = "aggregator.final_class" =>
        /\ ret.totals["PA"] + ret.totals["PN"] + ret.totals["CC"]
             + ret.totals["NE"] + ret.totals["ERROR"] = Len(arg)
        /\ ret.totals["CC"] =
             Cardinality({i \in DOMAIN arg : arg[i] \in {<<"OTHER EXT">>, <<"CC">>}})
        /\ ret.totals["ERROR"] =
             Cardinality({i \in DOMAIN arg :
                 arg[i] \notin {<<"PA">>, <<"PN">>, <<"CC">>, <<"NE">>,
                                <<"OTHER EXT">>}})

\* C9 as stated: in a tie among CC, NE, ERROR of a PR without PA and PN
\* files, the label is the first tied label in the order of the counts
\* dictionary of final_class (PA, NE, CC, PN, ERROR).
C9_TieInCountsOrder ==
    LET counts == IF fn = "_determine_ultimate_class" THEN arg ELSE ret.totals
        label  == IF fn = "_determine_ultimate_class" THEN ret ELSE ret.class
    IN  (/\ fn \in {"_determine_ultimate_class", "aggregator.final_class"}
         /\ counts["PA"] = 0 /\ counts["PN"] = 0
         /\ \E c, d \in {"CC", "NE", "ERROR"} :
               /\ c # d /\ counts[c] = counts[d]
               /\ \A e \in {"CC", "NE", "ERROR"} : counts[e] <= counts[c])
        => label = FirstMax(SelectSeq(CountsOrder,
                                      LAMBDA c : c \in {"CC", "NE", "ERROR"}),
                            counts)

\* C9, amended: in a tie among CC, NE, ERROR of a PR without PA and PN files,
\* the label is the first tied label in the order CC, NE, ERROR.
C9_TieInRemainingOrder ==
    LET counts == IF fn = "_determine_ultimate_class" THEN arg ELSE ret.totals
        label  == IF fn = "_determine_ultimate_class" THEN ret ELSE ret.class
    IN  (/\ fn \in {"_determine_ultimate_class", "aggregator.final_class"}
         /\ counts["PA"] = 0 /\ counts["PN"] = 0
         /\ \E c, d \in {"CC", "NE", "ERROR"} :
               /\ c # d /\ counts[c] = counts[d]
               /\ \A e \in {"CC", "NE", "ERROR"} : counts[e] <= counts[c])
        => label = IF counts["CC"] >= counts["NE"] /\ counts["CC"] >= counts["ERROR"]
                   THEN "CC"
                   ELSE IF counts["NE"] >= counts["ERROR"] THEN "NE" ELSE "ERROR"

\* aggregator.final_class has labelled a PR with as many CC as NE files, and
\* fewer ERROR files
C9_Witness ==
    /\ fn = "aggregator.final_class"
    /\ ret.totals["PA"] = 0 /\ ret.totals["PN"] = 0
    /\ ret.totals["CC"] = 1 /\ ret.totals["NE"] = 1 /\ ret.totals["ERROR"] = 0
    /\ ret.class = "CC"

----------------------------------------------------------------------------
(* Properties of the patch index (specification Spec)                      *)

\* the lines of a patch file cut at the '@@' lines: segment 1 holds the lines
\* ahead of the first '@@' line, segment c + 1 those of the c-th hunk
RECURSIVE HunkSegments(_, _)
HunkSegments(lines, cur) ==
    IF lines = <<>> THEN <<cur>>
    ELSE IF StartsWith(Head(lines), <<64, 64>>)
         THEN <<cur>> \o HunkSegments(Tail(lines), <<>>)
         ELSE HunkSegments(Tail(lines), Append(cur, Head(lines)))

\* the lines of a segment that a mode keeps, first character removed: the
\* changed lines ('+' in patch mode, '-' in buggy mode) and the context lines
KeptOf(segment, type) ==
    LET kept == SelectSeq(segment,
                    LAMBDA l : \/ l[1] = (IF type = "patch" THEN 43 ELSE 45)
                               \/ l[1] = 32)
    IN  [i \in 1..Len(kept) |-> Tail(kept[i])]

\* C11: the content of a record.  Once a patch file is processed, the records
\* are, in order, those of the segments between '@@' lines that have kept
\* lines, and the normalized content of each is built from exactly the kept
\* lines of its own segment in their order ('+' and ' ' lines in patch mode,
\* '-' and ' ' lines in buggy mode); no line of another segment enters it.
C11_RecordContent ==
    pc # "patch" =>
        LET segs  == HunkSegments(patch_lines, <<>>)
            owned == { c \in 1..Len(segs) : KeptOf(segs[c], patch_type) # <<>> }
        IN  /\ { r.diff_cnt + 1 : r \in Range(patch_list) } = owned
            /\ Len(patch_list) = Cardinality(owned)
            /\ \A i \in 1..(Len(patch_list) - 1) :
                  patch_list[i].diff_cnt < patch_list[i + 1].diff_cnt
            /\ \A r \in Range(patch_list) :
                  r.norm_lines =
                      Split(PatchNormalize(
                          Flatten(KeptOf(segs[r.diff_cnt + 1], patch_type)),
                          file_ext))

\* a buggy-mode file whose two segments each gave a record, of different content
C11_Witness ==
    /\ pc = "patch_done"
    /\ patch_type = "buggy"
    /\ Len(patch_list) = 2
    /\ patch_list[1].norm_lines # patch_list[2].norm_lines

\* C12: the window count.  A record built by _build_hash_list from L tokens
\* at n-gram size N (L >= N) has L - N + 1 windows in token order: patch_hashes
\* has L - N + 1 pairs of the n-gram text (N tokens joined by a space) and
\* its (fnv1a, djb2, sdbm), and hash_list is the 3 * (L - N + 1) hashes of
\* those triples in the same order.
C12_WindowCount ==
    \A r \in Range(patch_list) :
        LET L == Len(r.norm_lines)
            N == r.ngram_size
        IN  L >= N =>
              /\ Len(r.patch_hashes) = L - N + 1
              /\ Len(r.hash_list) = 3 * (L - N + 1)
              /\ \A i \in 1..(L - N + 1) :
                    LET text == JoinTokens(SubSeq(r.norm_lines, i, i + N - 1), <<32>>)
                    IN  /\ r.patch_hashes[i][1] = text
                        /\ r.patch_hashes[i][2] =
                             <<fnv1a_hash(text), djb2_hash(text), sdbm_hash(text)>>
                        /\ r.patch_hashes[i][2] =
                             <<r.hash_list[3 * i - 2], r.hash_list[3 * i - 1],
                               r.hash_list[3 * i]>>

\* a record of four tokens at n-gram size 2: three windows
C12_Witness ==
    \E r \in Range(patch_list) :
        /\ Len(r.norm_lines) = 4
        /\ r.ngram_size = 2
        /\ Len(r.patch_hashes) = 3

\* C13: the short-hunk shrink.  When a pending hunk is flushed whose k
\* normalized tokens are fewer than the n-gram size N in effect, a record is
\* appended all the same; it has one window (3 hashes), whose text is all k
\* tokens, and it records ngram_size = k.
C13_ShortHunkShrink ==
    [][ (/\ pc = "patch"
         /\ diff_lines # <<>>
         /\ (diff_lines' = <<>> \/ pc' = "patch_done")
         /\ Len(Split(PatchNormalize(Flatten(diff_lines), file_ext))) < ngram_size)
        =>
        LET toks == Split(PatchNormalize(Flatten(diff_lines), file_ext))
            r    == patch_list'[Len(patch_list')]
        IN  /\ Len(patch_list') = Len(patch_list) + 1
            /\ r.norm_lines = toks
            /\ r.ngram_size = Len(toks)
            /\ Len(r.patch_hashes) = 1
            /\ Len(r.hash_list) = 3
            /\ r.patch_hashes[1][1] = JoinTokens(toks, <<32>>)
      ]_vars

\* a hunk of one token flushed while the n-gram size left by the hunk before
\* it was 2
C13_Witness ==
    /\ Len(patch_list) >= 2
    /\ patch_list[1].ngram_size = 2
    /\ Len(patch_list[2].norm_lines) = 1
    /\ patch_list[2].ngram_size = 1
    /\ Len(patch_list[2].patch_hashes) = 1

\* C14: the n-gram size is never below 1.  After any sequence of hunks,
\* hunks of zero tokens included, every record has ngram_size >= 1 and
\* common.ngram_size is >= 1.
C14_NgramAtLeastOne ==
    /\ ngram_size >= 1
    /\ \A r \in Range(patch_list) : r.ngram_size >= 1

----------------------------------------------------------------------------
(* SourceLoader.traverse on a given patch object: specification SpecScan   *)
(*                                                                         *)
(* The patch argument is any object with items() and length(); here its    *)
(* entries hold fingerprints that are bit indices (each hash masked with   *)
(* bloomfilter_size - 1), and common.ngram_size is whatever the caller     *)
(* left.                                                                   *)

MaxRecords == 2        \* entries of the patch object

tokAB == <<97, 98>>    \* "ab"

\* the masked hashes of the windows of toks at n-gram size n, as bit indices
\* of a bit vector of the given size
MaskedHashes(toks, n, size) ==
    Flatten([i \in 1..(Len(toks) - n + 1) |->
                [j \in 1..3 |->
                    IndexWord(MaskedTriple(SourceNgram(toks, i - 1, n), size)[j])]])

\* an entry whose hash_list holds the masked hashes of the windows of toks at
\* n-gram size n, and whose get('old_norm_lines', []) returns old
ScanEntry(toks, n, size, old) ==
    [diff_cnt |-> 0, file_ext |-> ShellScript, norm_lines |-> toks,
     hash_list |-> MaskedHashes(toks, n, size),
     patch_hashes |-> <<>>,
     ngram_size |-> n,
     old_norm_lines |-> old]

ScanEntryPool(size) ==
    { ScanEntry(<<tokNew>>, 1, size, <<>>),
      ScanEntry(<<tokOld>>, 1, size, MaskedHashes(<<tokOld>>, 1, size)),
      ScanEntry(<<tokNew, tokAB>>, 2, size, <<>>) }

\* SourceLoader() and the arguments of traverse, with common.bloomfilter_size
\* one of sizes
InitScanAt(sizes) ==
    /\ pc = "patch_done"
    /\ err = "none"
    /\ ngram_size \in 1..MaxNgram
    /\ bloomfilter_size \in sizes
    /\ min_mn_ratio = MIN_MN_RATIO
    /\ patch_type = "patch"
    /\ file_ext = ShellScript
    /\ patch_lines = <<>>
    /\ line_no = 0
    /\ diff_cnt = 0
    /\ diff_lines = <<>>
    /\ changed_lines = <<>>
    /\ patch_list \in SeqsUpTo(ScanEntryPool(bloomfilter_size), MaxRecords)
    /\ only_added = <<>>
    /\ only_removed = <<>>
    /\ hashes = <<>>
    /\ source_text = <<>>
    /\ tokens = <<>>
    /\ patch_id = 0
    /\ win_i = 0
    /\ num_ngram_processed = 0
    /\ bit_vector = {}
    /\ match_dict = <<>>
    /\ match_srcs = <<>>
    /\ results = <<>>
    /\ source_hashes = <<>>
    /\ nmatch = 0
    /\ fn = "none"
    /\ arg = <<>>
    /\ ret = <<>>
    /\ InitMain

InitScan == InitScanAt({BLOOMFILTER_SIZE})

NextScan ==
    \/ SourceTraverse
    \/ SrcRecord
    \/ SrcScan
    \/ SrcCheck

SpecScan == InitScan /\ [][NextScan]_vars

\* the same traverse with a bit vector so small that the scan passes the
\* limit bloomfilter_size / min_mn_ratio: 1 and 1/2 at the default ratio
ResetSizes == {32, 16}

InitReset == InitScanAt(ResetSizes)

SpecReset == InitReset /\ [][NextScan]_vars

\* the verdicts of record p (from 0) in match_items()
VerdictsOf(p) ==
    IF p \in DOMAIN match_dict
    THEN UNION { { e[2] : e \in Range(match_dict[p][w]) } : w \in DOMAIN match_dict[p] }
    ELSE {}

\* C15: a source shorter than a record's n-gram size.  When the scan has
\* ended, a record whose n-gram size exceeds the number of source tokens has
\* no true verdict, and every record whose n-gram size the source reaches
\* has been scanned and tested (it has its verdicts in match_items()),
\* also when it follows a record that was too long for the source.
C15_ShortSourceSkipsRecord ==
    (pc = "done" /\ err = "none") =>
        \A p \in 0..(Len(patch_list) - 1) :
            IF Len(tokens) < patch_list[p + 1].ngram_size
            THEN TRUE \notin VerdictsOf(p)
            ELSE p \in DOMAIN match_dict

----------------------------------------------------------------------------
(* main.py: PatchTrack.classify, specification SpecClassify                *)
(*                                                                         *)
(* A PR is [chatgpt, texts, patches]: whether its chatgpt directory        *)
(* exists, and the numbers of files listed in its chatgpt and github       *)
(* directories.  A path is <<directory, number>>.  result_dict[k], for the *)
(* k-th PR, is [files, list]: the keys of result_dict[pr_nr] in insertion  *)
(* order, each with whether its 'result' key is set, and the one list      *)
(* 'result' of the PR that every set 'result' key refers to.               *)

MaxPrs == 2            \* PRs of pr_project_pair

PrPool ==
    { [chatgpt |-> FALSE, texts |-> 0, patches |-> 1],
      [chatgpt |-> TRUE, texts |-> 1, patches |-> 2] }

\* what helpers.get_file_type returns for the text files
TextExts == {Text, ShellScript}

\* a call that either returns or raises: helpers.count_LOC opens the file,
\* and helpers.py defines count_loc, not count_LOC
CallOutcomes == {"returns", "raises"}

\* classifier.process_patch for one pair: whether each traverse raised (the
\* exception is printed and dropped), and what the two loaders then hold.
\* The first run completed with its record matched, the second was ended by
\* an exception of the scan after the first window was created, the third
\* by an exception of PatchLoader.traverse before any record was built.
PairRuns ==
    { [patch_error |-> FALSE, source_error |-> FALSE,
       match_items |-> << << Window(KeysMasked, <<TRUE, TRUE, TRUE>>) >> >>,
       added |-> << <<tokNew>> >>,
       source_hashes |-> << <<tokNew, MaskedTriple(tokNew, BLOOMFILTER_SIZE)>> >>,
       ngram_size |-> NGRAM_SIZE],
      [patch_error |-> FALSE, source_error |-> TRUE,
       match_items |-> << << <<>> >> >>,
       added |-> << <<tokNew>> >>,
       source_hashes |-> << <<tokNew, MaskedTriple(tokNew, BLOOMFILTER_SIZE)>> >>,
       ngram_size |-> NGRAM_SIZE],
      [patch_error |-> TRUE, source_error |-> FALSE,
       match_items |-> <<>>,
       added |-> <<>>,
       source_hashes |-> << <<tokNew, MaskedTriple(tokNew, BLOOMFILTER_SIZE)>> >>,
       ngram_size |-> NGRAM_SIZE] }

\* what process_patch prints for a run
RunMessages(run) ==
    (IF run.patch_error THEN <<"Error traversing patch:....">> ELSE <<>>)
    \o (IF run.source_error THEN <<"Error traversing source (variant)....">> ELSE <<>>)

\* result_mod['patchClass'] of a pair whose loaders hold run: the hunk
\* classes of find_hunk_matches_w_important_hash, each through classify_hunk
\* with an empty class_buggy, then classify_patch
PairClass(run) ==
    LET hunk_matches_patch ==
            find_hunk_matches_w_important_hash(run.match_items, "PA",
                                               run.added, run.source_hashes)
        hunk_classifications ==
            [k \in DOMAIN hunk_matches_patch |->
                classify_hunk("", hunk_matches_patch[k].class)]
    IN  classify_patch(hunk_classifications)

ResultMod(class, dest, patch) ==
    [patchClass |-> class, destPath |-> dest, patchPath |-> patch]

\* result_dict[pr_nr][path] = {}
AddFile(entry, path) ==
    [entry EXCEPT !.files = Append(@, [path |-> path, result |-> FALSE])]

\* result_dict[pr_nr][path]['result'] = result, path the last key added
SetResult(entry) ==
    [entry EXCEPT !.files[Len(entry.files)].result = TRUE]

\* result.append(result_mod)
AppendResult(entry, result_mod) ==
    [entry EXCEPT !.list = Append(@, result_mod)]

\* the head of the loop over the PRs, and the branch of a PR without a
\* chatgpt directory
NextPr ==
    /\ mpc = "pr"
    /\ pr_i <= Len(prs)
    /\ LET path == <<"github", 1>>
           fresh == [files |-> <<>>, list |-> <<>>]
       IN  IF ~prs[pr_i].chatgpt
           THEN IF patch_LOC = "unbound"
                THEN /\ result_dict' = Append(result_dict, AddFile(fresh, path))
                     /\ raised' = "UnboundLocalError"
                     /\ mpc' = "raised"
                     /\ UNCHANGED pr_i
                ELSE /\ result_dict' =
                            Append(result_dict,
                                   SetResult(AppendResult(AddFile(fresh, path),
                                       ResultMod("NOT EXISTING", path, path))))
                     /\ pr_i' = pr_i + 1
                     /\ UNCHANGED <<raised, mpc>>
           ELSE /\ result_dict' = Append(result_dict, fresh)
                /\ mpc' = "text"
                /\ UNCHANGED <<raised, pr_i>>
    /\ text_i' = 1
    /\ printed' = <<>>
    /\ UNCHANGED <<prs, text_ext, patch_j, patch_LOC, loaderVars, callVars>>

\* the head of the loop over the text files of the PR
NextText ==
    /\ mpc = "text"
    /\ IF text_i > prs[pr_i].texts
       THEN /\ pr_i' = pr_i + 1
            /\ mpc' = "pr"
            /\ printed' = <<>>
            /\ UNCHANGED <<result_dict, text_ext, patch_j>>
       ELSE /\ result_dict' =
                   [result_dict EXCEPT ![pr_i] = AddFile(@, <<"chatgpt", text_i>>)]
            /\ \E ext \in TextExts, loc \in CallOutcomes :
                   IF loc = "raises"
                   THEN /\ printed' = <<"Some error........: ">>
                        /\ pr_i' = pr_i + 1
                        /\ mpc' = "pr"
                        /\ UNCHANGED <<text_ext, patch_j>>
                   ELSE /\ text_ext' = ext
                        /\ patch_j' = 1
                        /\ mpc' = "pair"
                        /\ printed' = <<>>
                        /\ UNCHANGED pr_i
    /\ UNCHANGED <<prs, text_i, patch_LOC, raised, loaderVars, callVars>>

\* the loop over the patch files: one (text file, patch file) pair
ClassifyPair ==
    /\ mpc = "pair"
    /\ LET dest == <<"chatgpt", text_i>>
           patch == <<"github", patch_j>>
       IN  IF patch_j > prs[pr_i].patches
           THEN /\ result_dict' = [result_dict EXCEPT ![pr_i] = SetResult(@)]
                /\ text_i' = text_i + 1
                /\ mpc' = "text"
                /\ printed' = <<>>
                /\ UNCHANGED <<pr_i, patch_j, patch_LOC, ngram_size>>
           ELSE \E loc \in CallOutcomes :
                   IF loc = "raises"
                   THEN /\ printed' = <<"Some error........: ">>
                        /\ pr_i' = pr_i + 1
                        /\ mpc' = "pr"
                        /\ UNCHANGED <<result_dict, text_i, patch_j, patch_LOC,
                                       ngram_size>>
                   ELSE /\ patch_LOC' = "bound"
                        /\ patch_j' = patch_j + 1
                        /\ IF text_ext > 1
                           THEN \E run \in PairRuns, body \in CallOutcomes :
                                   /\ ngram_size' = run.ngram_size
                                   /\ IF body = "raises"
                                      THEN /\ printed' = RunMessages(run)
                                                \o <<"Exception thrown is: ">>
                                           /\ result_dict' =
                                                [result_dict EXCEPT ![pr_i] =
                                                    AppendResult(@,
                                                        ResultMod("ERROR", dest, patch))]
                                      ELSE /\ printed' = RunMessages(run)
                                           /\ result_dict' =
                                                [result_dict EXCEPT ![pr_i] =
                                                    AppendResult(@,
                                                        ResultMod(PairClass(run),
                                                                  dest, patch))]
                           ELSE /\ printed' = <<>>
                                /\ result_dict' =
                                     [result_dict EXCEPT ![pr_i] =
                                         AppendResult(@,
                                             ResultMod("OTHER EXT", dest, patch))]
                                /\ UNCHANGED ngram_size
                        /\ UNCHANGED <<pr_i, text_i, mpc>>
    /\ UNCHANGED <<prs, text_ext, raised, pc, err, cfgVars, patchVars, srcVars,
                   callVars>>

\* after the loop: totals.final_class iterates the dict result_dict, so
\* each element is a key and elements.items() raises; with no PR the call of
\* common.pickleFile is left, and common.py defines pickle_file
ClassifyFinish ==
    /\ mpc = "pr"
    /\ pr_i > Len(prs)
    /\ IF result_dict # <<>>
       THEN mpc' = "raised" /\ raised' = "AttributeError"
       ELSE \E store \in CallOutcomes :
               IF store = "raises"
               THEN mpc' = "raised" /\ raised' = "AttributeError"
               ELSE mpc' = "finished" /\ UNCHANGED raised
    /\ printed' = <<>>
    /\ UNCHANGED <<prs, pr_i, text_i, text_ext, patch_j, patch_LOC, result_dict,
                   loaderVars, callVars>>

InitClassify ==
    /\ InitLoaders
    /\ ngram_size = NGRAM_SIZE
    /\ prs \in SeqsUpTo(PrPool, MaxPrs)
    /\ mpc = "pr"
    /\ pr_i = 1
    /\ text_i = 1
    /\ text_ext = Text
    /\ patch_j = 1
    /\ patch_LOC = "unbound"
    /\ result_dict = <<>>
    /\ printed = <<>>
    /\ raised = "none"

NextClassify ==
    \/ NextPr
    \/ NextText
    \/ ClassifyPair
    \/ ClassifyFinish

SpecClassify == InitClassify /\ [][NextClassify]_vars

----------------------------------------------------------------------------
(* Properties of the similarity ratio (specification SpecCalls)            *)

\* the n-grams of the added lines: the windows of n consecutive tokens of an
\* added line, joined as the n-grams of the source are
AddedNgrams(added, n) ==
    UNION { { SourceNgram(added[l], i - 1, n) : i \in 1..(Len(added[l]) - n + 1) }
            : l \in DOMAIN added }

\* C17: the similarity ratio.  A call of cal_similarity_ratio on
\* source_hashes() and added() returns 100 times the number of distinct
\* source n-gram strings that equal an n-gram of an added line, over the
\* number of distinct source n-gram strings, and 0 when the source has no
\* n-grams.
C17_SimilarityRatio ==
    fn = "cal_similarity_ratio" =>
        LET sh == arg[1]
            distinct == { sh[i][1] : i \in DOMAIN sh }
            shared == distinct \cap AddedNgrams(arg[2], ngram_size)
        IN  IF distinct = {} THEN ret = <<0, 1>>
            ELSE ret = <<100 * Cardinality(shared), Cardinality(distinct)>>

----------------------------------------------------------------------------
(* Properties of the traverses (specifications Spec and SpecScan)          *)

\* C18: a file type tag outside the supported range.  After
\* PatchLoader.traverse with file_ext below 2 or at least 40 the patch list
\* (whose length is the returned count), the hash map and the pools of added
\* and removed lines are empty; after SourceLoader.traverse with such a tag
\* match_items(), results() and source_hashes() are as the constructor left
\* them and the returned count is 0.
C18_UnsupportedTagSkips ==
    (pc \in {"patch_done", "done"}
        /\ (file_ext < MIN_FILE_EXT_TYPE \/ file_ext >= MAX_FILE_EXT_TYPE)) =>
        /\ Len(patch_list) = 0
        /\ hashes = <<>>
        /\ only_added = <<>>
        /\ only_removed = <<>>
        /\ pc = "done" =>
              /\ match_dict = <<>>
    /\ match_srcs = <<>>
              /\ results = <<>>
              /\ source_hashes = <<>>
              /\ nmatch = 0

C18_Witness ==
    /\ pc = "done"
    /\ file_ext = MAX_FILE_EXT_TYPE
    /\ patch_type = "buggy"
    /\ source_hashes = <<>>

\* C19: the count returned by SourceLoader.traverse.  When the traverse has
\* ended and, for at least one patch record, every fingerprint of the
\* record tested true, the returned count _nmatch is at least 1.
C19_ReturnsMatchCount ==
    pc = "done" =>
        ((\E p \in DOMAIN match_dict :
              VerdictsOf(p) = {TRUE}) => nmatch >= 1)

----------------------------------------------------------------------------
(* Properties of classify (specification SpecClassify)                     *)

\* C20: a PR without a chatgpt directory.  Every step of classify that
\* handles such a PR raises nothing, records for the PR exactly one result
\* item, with patchClass 'NOT EXISTING', under the first patch file of the
\* PR, and goes on to the next PR, whether or not an earlier PR was
\* processed.
C20_MissingDirectoryRecorded ==
    [][ (mpc = "pr" /\ pr_i <= Len(prs) /\ ~prs[pr_i].chatgpt)
        => /\ raised' = "none"
           /\ mpc' = "pr"
           /\ pr_i' = pr_i + 1
           /\ Len(result_dict') = pr_i
           /\ result_dict'[pr_i].files = <<[path |-> <<"github", 1>>, result |-> TRUE]>>
           /\ Len(result_dict'[pr_i].list) = 1
           /\ result_dict'[pr_i].list[1].patchClass = "NOT EXISTING" ]_vars

----------------------------------------------------------------------------
(* Properties relating the patch index and the source scan                 *)

\* C21: the window string of the two loaders.  For every window of every
\* patch record, the string PatchLoader hashed is the string SourceLoader
\* builds from the same tokens at the same n-gram size, and so the record's
\* (fnv1a, djb2, sdbm) triple is the triple of the source's window string.
C21_SameWindowString ==
    \A r \in Range(patch_list) :
        \A i \in DOMAIN r.patch_hashes :
            LET ngram == SourceNgram(r.norm_lines, i - 1, r.ngram_size)
            IN  /\ r.patch_hashes[i][1] = ngram
                /\ r.patch_hashes[i][2] = Triple(ngram)

\* C22: the fingerprints of a patch record as bit indices.  Every entry of a
\* record's hash_list lies in [0, bloomfilter_size) and is the index the
\* source scan sets for the window string (the hash masked with
\* bloomfilter_size - 1), and the final query never ends in an IndexError.
C22_FingerprintsAreIndices ==
    /\ err # "IndexError"
    /\ \A r \in Range(patch_list) :
          \A i \in DOMAIN r.patch_hashes :
              \A j \in 1..3 :
                  LET h == r.hash_list[3 * (i - 1) + j]
                  IN  /\ WordBelow(h, bloomfilter_size)
                      /\ h = IndexWord(MaskedTriple(r.patch_hashes[i][1],
                                                    bloomfilter_size)[j])

\* the text of the kept lines of all the hunks of the patch file, as
\* _add_patch_from_diff joins them
HunkText ==
    LET segs == HunkSegments(patch_lines, <<>>)
    IN  Flatten([c \in 1..Len(segs) |-> Flatten(KeptOf(segs[c], patch_type))])

\* C23: the two normalizations.  When the scanned source is, character for
\* character, the text of the one hunk of the patch file, the tokens of the
\* source are the tokens of the hunk's record.
C23_SameTokens ==
    (pc \in {"record", "scan", "done"}
        /\ Len(patch_list) = 1
        /\ source_text = HunkText) =>
        tokens = patch_list[1].norm_lines

----------------------------------------------------------------------------
(* Properties of the mid-scan reset (specification SpecReset)              *)

\* C24: the reset boundary.  When the scan loop of a record has run over a
\* source with exactly bloomfilter_size / min_mn_ratio + 1 windows, exactly
\* one evaluation-and-reset cycle took place: the counter of the n-grams
\* since the last reset is below the number of windows (with that many
\* windows a second cycle cannot follow the first).
C24_ResetBoundary ==
    (pc = "scan"
        /\ win_i = NumNgram
        /\ NumNgram * min_mn_ratio = bloomfilter_size + min_mn_ratio) =>
        num_ngram_processed < NumNgram

----------------------------------------------------------------------------
(* Properties of the n-gram size (specifications SpecTraverse, SpecClassify) *)

\* PatchLoader.traverse called with common.ngram_size configured at the
\* largest size of the model
InitTraverse == Init /\ ngram_size = MaxNgram

NextTraverse ==
    \/ PatchTraverse
    \/ PatchLine
    \/ PatchFinish

SpecTraverse == InitTraverse /\ [][NextTraverse]_vars

\* C25: the n-gram size of a record depends on its own hunk only.  In a
\* patch traversal at the configured n-gram size MaxNgram, every record of
\* the patch list has ngram_size = min(MaxNgram, its token count), also when
\* an earlier hunk of the traversal was shorter than the configured size.
C25_SizePerHunk ==
    \A r \in Range(patch_list) :
        r.ngram_size = IF Len(r.norm_lines) < MaxNgram
                       THEN Len(r.norm_lines) ELSE MaxNgram

----------------------------------------------------------------------------
(* Properties of the bit vector (specification SpecScan)                   *)

\* the bits of the windows of the source at n-gram size n
SourceBits(n) ==
    UNION { Range(MaskedTriple(SourceNgram(tokens, i, n), bloomfilter_size))
            : i \in 0..(Len(tokens) - n) }

C27_MatchItemsShape ==
    /\ err = "none"
    /\ pc \in {"record", "done"} =>
          \A p \in 0..(patch_id - 1) :
              /\ p \notin DOMAIN match_srcs
              /\ p \in DOMAIN match_dict
              /\ 3 * Len(match_dict[p]) = Len(patch_list[p + 1].hash_list)
              /\ \A w \in DOMAIN match_dict[p] : Len(match_dict[p][w]) <= 3

----------------------------------------------------------------------------
(* Further properties of the classifier and of the aggregation             *)
(* (specification SpecCalls)                                               *)

\* C28: the hunk classes.  For every pair of side classes drawn from '',
\* 'MC' and 'PA', classify_hunk returns 'PA', 'PN' or 'MC', never the empty
\* string.
C28_HunkClassNotEmpty ==
    (fn = "classify_hunk" /\ arg[1] \in {"", "MC", "PA"} /\ arg[2] \in {"", "MC", "PA"})
        => ret \in {"PA", "PN", "MC"}

----------------------------------------------------------------------------
(* Properties of process_patch (specification SpecProcess)                 *)

\* C29: process_patch starts from the configured default.  Over any
\* sequence of process_patch calls, the first hunk of a call is measured
\* against constant.NGRAM_SIZE, whatever n-gram size the earlier calls left:
\* the first record of the patch list has ngram_size = min(NGRAM_SIZE, its
\* token count).
C29_FirstHunkAtDefault ==
    /\ (pc = "patch" /\ line_no = 0) => ngram_size = NGRAM_SIZE
    /\ patch_list # <<>> =>
          patch_list[1].ngram_size =
              IF Len(patch_list[1].norm_lines) < NGRAM_SIZE
              THEN Len(patch_list[1].norm_lines) ELSE NGRAM_SIZE

\* a call has measured a first hunk of two tokens against the default size
\* and both of its traversals are over
C29_Witness ==
    /\ pc = "done"
    /\ patch_list # <<>>
    /\ Len(patch_list[1].norm_lines) = 2
    /\ patch_list[1].ngram_size = NGRAM_SIZE
    /\ ngram_size = NGRAM_SIZE

----------------------------------------------------------------------------
(* The two aggregations (specification SpecCalls)                          *)

\* the result items of main.classify: its five labels, or no label
EmittedItems ==
    { <<>>, <<"PA">>, <<"PN">>, <<"OTHER EXT">>, <<"NOT EXISTING">>,
      <<"ERROR">> }

\* C30: the two aggregations are interchangeable.  For a PR whose result
\* items carry the labels main.classify emits ('PA', 'PN', 'OTHER EXT',
\* 'NOT EXISTING', 'ERROR') or no label, aggregator.final_class and
\* totals.final_class return the same five totals and the same PR class.
C30_FinalClassesAgree ==
    (fn \in {"aggregator.final_class", "totals.final_class"}
        /\ Range(arg) \subseteq EmittedItems)
    => (ret = aggregator_final_class(arg) /\ ret = totals_final_class(arg))

====
